---------------------------- MODULE Spec2Model ----------------------------
(***************************************************************************)
(* Model of the two scripts of the repository:                             *)
(*   scripts/yt_download_and_trim/yt_dt.py        (download and trim CLI)   *)
(*   scripts/extract_bass_drums_from_youtube.py   (stem extraction script)  *)
(*                                                                         *)
(* A Python str is a sequence of one-character strings.  Characters that   *)
(* cannot be written in ASCII are named by their code point ("U00A0").     *)
(***************************************************************************)
EXTENDS Integers, Sequences, FiniteSets, TLC

VARIABLES
    (* parse_time_to_seconds called on its own *)
    p_pc, time_str, p_result,
    (* trim_audio called on its own *)
    t_pc, t_dur, t_start, t_end, t_result,
    (* yt_dt.main *)
    m_pc, keep_temp, start_seconds, end_seconds, temp_state, temp_dur,
    temp_removed, trim_result, warnings, exit_status, success_msg,
    (* the file search of download_youtube_audio *)
    d_pc, d_title, d_files, d_result,
    (* the filename sanitizer called on its own *)
    s_pc, s_in, s_out, s_again,
    (* extract_bass_drums_from_youtube.py *)
    x_pc, title, listing, normalized_title, matching_file_path, safe_path,
    safe_title, renamed, demucs_rc, separated, bass_dBFS, drums_dBFS,
    bass_gain, drums_gain, exported, x_error

parseVars == <<p_pc, time_str, p_result>>
trimVars  == <<t_pc, t_dur, t_start, t_end, t_result>>
mainVars  == <<m_pc, keep_temp, start_seconds, end_seconds, temp_state, temp_dur,
               temp_removed, trim_result, warnings, exit_status, success_msg>>
downloadVars == <<d_pc, d_title, d_files, d_result>>
sanVars == <<s_pc, s_in, s_out, s_again>>
extractVars == <<x_pc, title, listing, normalized_title, matching_file_path,
                 safe_path, safe_title, renamed, demucs_rc, separated,
                 bass_dBFS, drums_dBFS, bass_gain, drums_gain, exported, x_error>>
otherVars == <<downloadVars, sanVars, extractVars>>
vars == <<parseVars, trimVars, mainVars, downloadVars, sanVars, extractVars>>

-----------------------------------------------------------------------------
(* Bounds of the model *)

MaxTimeLen == 5
MaxArgLen == 3
MaxSec == 3
MaxDurHalfSec == 4
MaxTitleWords == 4
MaxStemLen == 1
MaxFiles == 2
MaxNameLen == 1
MaxListing == 2
MaxSanLen == 3

-----------------------------------------------------------------------------
(* Python str helpers *)

Strings(A, n) == UNION {[1..k -> A] : k \in 0..n}
NonEmptyStrings(A, n) == UNION {[1..k -> A] : k \in 1..n}

Min(a, b) == IF a < b THEN a ELSE b
Max(a, b) == IF a > b THEN a ELSE b

Digits == {"0", "1", "2", "3", "4", "5", "6", "7", "8", "9"}
Whitespace == {" ", "\t", "\n", "\r"}

DigitVal(c) ==
    CASE c = "0" -> 0 [] c = "1" -> 1 [] c = "2" -> 2 [] c = "3" -> 3
      [] c = "4" -> 4 [] c = "5" -> 5 [] c = "6" -> 6 [] c = "7" -> 7
      [] c = "8" -> 8 [] c = "9" -> 9

(* str.strip(): drop leading and trailing whitespace *)
RECURSIVE LStrip(_)
LStrip(s) ==
    IF s # <<>> /\ Head(s) \in Whitespace THEN LStrip(Tail(s)) ELSE s

RECURSIVE RStrip(_)
RStrip(s) ==
    IF s # <<>> /\ s[Len(s)] \in Whitespace
    THEN RStrip(SubSeq(s, 1, Len(s) - 1))
    ELSE s

Strip(s) == RStrip(LStrip(s))

(* str.split(sep) with a one-character separator: empty parts are kept *)
RECURSIVE SplitAcc(_, _, _)
SplitAcc(s, sep, cur) ==
    IF s = <<>> THEN <<cur>>
    ELSE IF Head(s) = sep
         THEN <<cur>> \o SplitAcc(Tail(s), sep, <<>>)
         ELSE SplitAcc(Tail(s), sep, Append(cur, Head(s)))

Split(s, sep) == SplitAcc(s, sep, <<>>)

(* p in s *)
IsSubstring(p, s) ==
    \E i \in 0..(Len(s) - Len(p)) : SubSeq(s, i + 1, i + Len(p)) = p

(* s.endswith(suf) *)
EndsWith(s, suf) ==
    /\ Len(s) >= Len(suf)
    /\ SubSeq(s, Len(s) - Len(suf) + 1, Len(s)) = suf

-----------------------------------------------------------------------------
(* int(str): surrounding whitespace stripped, one optional sign, then      *)
(* decimal digits.  (Underscore digit separators are outside the alphabet  *)
(* of the model.)  ok = FALSE stands for "ValueError: invalid literal".     *)

RECURSIVE DigitsVal(_, _)
DigitsVal(s, acc) ==
    IF s = <<>> THEN acc ELSE DigitsVal(Tail(s), acc * 10 + DigitVal(Head(s)))

PyInt(str) ==
    LET s == Strip(str)
        signed == s # <<>> /\ Head(s) \in {"-", "+"}
        body == IF signed THEN Tail(s) ELSE s
    IN  IF body # <<>> /\ \A i \in 1..Len(body) : body[i] \in Digits
        THEN [ok |-> TRUE,
              val |-> IF signed /\ Head(s) = "-"
                      THEN 0 - DigitsVal(body, 0) ELSE DigitsVal(body, 0)]
        ELSE [ok |-> FALSE, val |-> 0]

(* parse_time_to_seconds(time_str) *)
parse_time_to_seconds(s) ==
    LET parts == Split(s, ":")
        ints == [i \in 1..Len(parts) |-> PyInt(parts[i])]
    IN  IF Len(parts) = 1
        THEN IF ints[1].ok
             THEN [kind |-> "ok", val |-> ints[1].val, str |-> <<>>]
             ELSE [kind |-> "InvalidLiteral", val |-> 0, str |-> <<>>]
        ELSE IF Len(parts) = 2
        THEN IF ints[1].ok /\ ints[2].ok
             THEN [kind |-> "ok", val |-> ints[1].val * 60 + ints[2].val,
                   str |-> <<>>]
             ELSE [kind |-> "InvalidLiteral", val |-> 0, str |-> <<>>]
        ELSE IF Len(parts) = 3
        THEN IF ints[1].ok /\ ints[2].ok /\ ints[3].ok
             THEN [kind |-> "ok",
                   val |-> ints[1].val * 3600 + ints[2].val * 60 + ints[3].val,
                   str |-> <<>>]
             ELSE [kind |-> "InvalidLiteral", val |-> 0, str |-> <<>>]
        ELSE [kind |-> "InvalidTimeFormat", val |-> 0, str |-> s]

TimeChars == {"0", "1", ":", "-", "."}
TimeStrs == Strings(TimeChars, MaxTimeLen)
NoResult == [kind |-> "none", val |-> 0, str |-> <<>>]


-----------------------------------------------------------------------------
(* trim_audio *)

Durations == {d * 500 : d \in 0..MaxDurHalfSec}
Seconds == (0 - MaxSec)..MaxSec

Abs(v) == IF v < 0 THEN 0 - v ELSE v

(* AudioSegment._parse_position: a negative position counts from the end *)
ParsePosition(D, v) == IF v < 0 THEN D - Abs(v) ELSE v

(* bytes[i:j] index normalisation of Python *)
PyIndex(n, i) == IF i < 0 THEN Max(i + n, 0) ELSE Min(i, n)

(* audio[start_ms:end_ms] of a buffer of D ms: the length of the slice, or *)
(* -1 when the library raises (more than 2 ms of frames missing)           *)
AudioSlice(D, s, e) ==
    LET ps == ParsePosition(D, Min(s, D))
        pe == ParsePosition(D, Min(e, D))
        datalen == Max(0, PyIndex(D, pe) - PyIndex(D, ps))
        missing == (pe - ps) - datalen
    IN  IF missing > 2 THEN -1 ELSE datalen + Max(missing, 0)

NoTrim == [err |-> "none", exported |-> FALSE, out_len |-> 0, clamped |-> FALSE]

(* trim_audio with the range check made before the start check *)
trim_audio_RangeFirst(loadable, D, start, end) ==
    LET start_ms == start * 1000
        end_ms == end * 1000
    IN  IF ~loadable
        THEN [NoTrim EXCEPT !.err = "DecodeFailure"]
        ELSE IF start_ms >= Min(end_ms, D)
        THEN [NoTrim EXCEPT !.err = "EmptyOrInvertedRange", !.clamped = end_ms > D]
        ELSE IF start_ms >= D
        THEN [NoTrim EXCEPT !.err = "StartExceedsDuration"]
        ELSE [err |-> "none", exported |-> TRUE,
              out_len |-> Min(end_ms, D) - start_ms, clamped |-> end_ms > D]

(* trim_audio(input_file, start_seconds, end_seconds, output_file) on an   *)
(* input that decodes (loadable) to a buffer of D ms                       *)
trim_audio(loadable, D, start, end) ==
    LET start_ms == start * 1000
        end_ms0 == end * 1000
    IN  IF ~loadable
        THEN [NoTrim EXCEPT !.err = "DecodeFailure"]
        ELSE IF start_ms >= D
        THEN [NoTrim EXCEPT !.err = "StartExceedsDuration"]
        ELSE LET clamped == end_ms0 > D
                 end_ms == IF clamped THEN D ELSE end_ms0
             IN  IF start_ms >= end_ms
                 THEN [NoTrim EXCEPT !.err = "EmptyOrInvertedRange",
                                     !.clamped = clamped]
                 ELSE LET n == AudioSlice(D, start_ms, end_ms)
                      IN  IF n < 0
                          THEN [NoTrim EXCEPT !.err = "SliceFailure",
                                              !.clamped = clamped]
                          ELSE [err |-> "none", exported |-> TRUE,
                                out_len |-> n, clamped |-> clamped]

-----------------------------------------------------------------------------
(* The file search of download_youtube_audio (lines 93-128) *)

UpperSeq == <<"A", "B", "C", "D", "E", "F", "G", "H", "I", "J", "K", "L", "M",
              "N", "O", "P", "Q", "R", "S", "T", "U", "V", "W", "X", "Y", "Z">>
LowerSeq == <<"a", "b", "c", "d", "e", "f", "g", "h", "i", "j", "k", "l", "m",
              "n", "o", "p", "q", "r", "s", "t", "u", "v", "w", "x", "y", "z">>
Letters == {UpperSeq[i] : i \in 1..26} \cup {LowerSeq[i] : i \in 1..26}

(* str.lower(), character by character *)
LowerChar(c) ==
    IF \E i \in 1..26 : UpperSeq[i] = c
    THEN LowerSeq[CHOOSE i \in 1..26 : UpperSeq[i] = c]
    ELSE c

Lower(s) == [i \in 1..Len(s) |-> LowerChar(s[i])]

(* the characters \w matches *)
WordChars == Letters \cup Digits \cup {"_"}

(* re.sub(r"[^\w\s-]", "", s) *)
RECURSIVE RemoveNonWord(_)
RemoveNonWord(s) ==
    IF s = <<>> THEN <<>>
    ELSE IF Head(s) \in WordChars \cup Whitespace \cup {"-"}
         THEN <<Head(s)>> \o RemoveNonWord(Tail(s))
         ELSE RemoveNonWord(Tail(s))

(* re.sub(r"[-\s]+", "-", s): each run of hyphens and whitespace becomes   *)
(* one hyphen                                                              *)
RECURSIVE CollapseRuns(_, _)
CollapseRuns(s, inRun) ==
    IF s = <<>> THEN <<>>
    ELSE IF Head(s) \in Whitespace \cup {"-"}
         THEN (IF inRun THEN <<>> ELSE <<"-">>) \o CollapseRuns(Tail(s), TRUE)
         ELSE <<Head(s)>> \o CollapseRuns(Tail(s), FALSE)

(* lines 96-97 *)
CleanTitle(t) == CollapseRuns(Strip(RemoveNonWord(t)), FALSE)

(* str.split(): split at runs of whitespace, no empty words *)
RECURSIVE WordsAcc(_, _)
WordsAcc(s, cur) ==
    IF s = <<>> THEN (IF cur = <<>> THEN <<>> ELSE <<cur>>)
    ELSE IF Head(s) \in Whitespace
         THEN (IF cur = <<>> THEN <<>> ELSE <<cur>>) \o WordsAcc(Tail(s), <<>>)
         ELSE WordsAcc(Tail(s), Append(cur, Head(s)))

SplitWords(s) == WordsAcc(s, <<>>)

(* line 118: the number of title words that occur in the lower-cased stem *)
RECURSIVE WordMatches(_, _)
WordMatches(words, stem_lower) ==
    IF words = <<>> THEN 0
    ELSE (IF IsSubstring(Head(words), stem_lower) THEN 1 ELSE 0)
         + WordMatches(Tail(words), stem_lower)

(* line 119: matches >= len(title_words) * 0.7 *)
EnoughWords(matches, n) == matches * 10 >= n * 7

(* lines 109-111: the first file whose stem contains the cleaned title,    *)
(* 0 when there is none                                                    *)
RECURSIVE FirstCleanMatch(_, _, _)
FirstCleanMatch(files, clean_lower, i) ==
    IF i > Len(files) THEN 0
    ELSE IF IsSubstring(clean_lower, Lower(files[i].stem)) THEN i
    ELSE FirstCleanMatch(files, clean_lower, i + 1)

(* lines 115-120: the first file with enough title words, 0 when none *)
RECURSIVE FirstWordMatch(_, _, _)
FirstWordMatch(files, words, i) ==
    IF i > Len(files) THEN 0
    ELSE IF EnoughWords(WordMatches(words, Lower(files[i].stem)), Len(words))
         THEN i
    ELSE FirstWordMatch(files, words, i + 1)

(* line 124: max(mp3_files, key=st_mtime), the first of the newest files *)
RECURSIVE NewestFrom(_, _, _)
NewestFrom(files, i, best) ==
    IF i > Len(files) THEN best
    ELSE IF files[i].mtime > files[best].mtime
         THEN NewestFrom(files, i + 1, i)
         ELSE NewestFrom(files, i + 1, best)

NoFile == [kind |-> "none", idx |-> 0, name |-> <<>>]
FoundFile(i) == [kind |-> "file", idx |-> i, name |-> <<>>]

(* the search without its first pass over the cleaned title *)
find_downloaded_WordsOnly(t, files) ==
    LET byWords == FirstWordMatch(files, SplitWords(Lower(t)), 1)
    IN  IF byWords # 0 THEN FoundFile(byWords)
        ELSE IF files # <<>> THEN FoundFile(NewestFrom(files, 2, 1))
        ELSE [kind |-> "expected", idx |-> 0, name |-> CleanTitle(t)]

(* lines 103-128: which path download_youtube_audio returns for the title  *)
(* t when glob("*.mp3") lists files; idx is the position in the listing    *)
find_downloaded(t, files) ==
    LET clean_title == CleanTitle(t)
        byClean == FirstCleanMatch(files, Lower(clean_title), 1)
        byWords == FirstWordMatch(files, SplitWords(Lower(t)), 1)
    IN  IF byClean # 0 THEN FoundFile(byClean)
        ELSE IF byWords # 0 THEN FoundFile(byWords)
        ELSE IF files # <<>> THEN FoundFile(NewestFrom(files, 2, 1))
        ELSE [kind |-> "expected", idx |-> 0, name |-> clean_title]

(* a title: up to MaxTitleWords words separated by single spaces *)
RECURSIVE JoinWords(_)
JoinWords(ws) ==
    IF ws = <<>> THEN <<>>
    ELSE IF Len(ws) = 1 THEN Head(ws)
    ELSE Head(ws) \o <<" ">> \o JoinWords(Tail(ws))

TitleWords == {<<"A">>, <<"a", "!">>}
Titles == {JoinWords(ws) : ws \in NonEmptyStrings(TitleWords, MaxTitleWords)}
StemChars == {"a", "!"}
Stems == NonEmptyStrings(StemChars, MaxStemLen)
Mp3Files == [stem : Stems, mtime : {1, 2}]
Mp3Listings ==
    {fs \in Strings(Mp3Files, MaxFiles) :
        \A i, j \in 1..Len(fs) : fs[i].stem = fs[j].stem => i = j}

-----------------------------------------------------------------------------
(* extract_bass_drums_from_youtube.py: names *)

(* the characters SPECIAL_CHARS matches (lines 18-20); the control         *)
(* characters \x00-\x1F are written by name except tab, LF and CR          *)
ControlChars == {"\t", "\n", "\r", "U0000", "U001B", "U001F"}
SPECIAL_CHARS ==
    {"<", ">", ":", "\"", "/", "\\", "|", "?", "*"}
        \cup ControlChars \cup {"U2022", "U29F8", "UFF1F"}

(* re.sub(SPECIAL_CHARS, "", s, count=1): only the first match removed *)
RECURSIVE Sanitize_FirstOnly(_)
Sanitize_FirstOnly(s) ==
    IF s = <<>> THEN <<>>
    ELSE IF Head(s) \in SPECIAL_CHARS THEN Tail(s)
    ELSE <<Head(s)>> \o Sanitize_FirstOnly(Tail(s))

(* re.sub(SPECIAL_CHARS, "", s) (lines 102-103) *)
RECURSIVE Sanitize(_)
Sanitize(s) ==
    IF s = <<>> THEN <<>>
    ELSE IF Head(s) \in SPECIAL_CHARS THEN Sanitize(Tail(s))
    ELSE <<Head(s)>> \o Sanitize(Tail(s))

(* unicodedata.normalize("NFKC", c) of one character, for the characters   *)
(* of the model: no-break space, fullwidth forms and the ellipsis have     *)
(* compatibility decompositions, the others map to themselves              *)
NFKCChar(c) ==
    CASE c = "U00A0" -> <<" ">>
      [] c = "UFF1F" -> <<"?">>
      [] c = "UFF1A" -> <<":">>
      [] c = "UFF0F" -> <<"/">>
      [] c = "U2026" -> <<".", ".", ".">>
      [] OTHER -> <<c>>

RECURSIVE NFKC(_)
NFKC(s) == IF s = <<>> THEN <<>> ELSE NFKCChar(Head(s)) \o NFKC(Tail(s))

(* the chain of str.replace calls of lines 28-34 *)
ReplaceChar(c) ==
    CASE c = "U29F8" -> "/"
      [] c = "U2044" -> "/"
      [] c = "U00A0" -> " "
      [] c = "U201C" -> "\""
      [] c = "U201D" -> "\""
      [] c = "U2018" -> "'"
      [] c = "U2019" -> "'"
      [] OTHER -> c

(* normalize_visually(s) (lines 25-36) *)
normalize_visually(s) ==
    LET n == NFKC(s)
    IN  Strip([i \in 1..Len(n) |-> ReplaceChar(n[i])])

target_ext == <<".", "m", "p", "3">>

(* the file search as if it kept the last match (no break at line 96) *)
RECURSIVE find_matching_LastFrom(_, _, _, _)
find_matching_LastFrom(names, nt, i, found) ==
    IF i > Len(names) THEN found
    ELSE IF ~EndsWith(Lower(names[i]), target_ext)
         THEN find_matching_LastFrom(names, nt, i + 1, found)
    ELSE IF IsSubstring(Lower(nt), Lower(normalize_visually(names[i])))
         THEN find_matching_LastFrom(names, nt, i + 1, i)
    ELSE find_matching_LastFrom(names, nt, i + 1, found)

find_matching_Last(names, nt, i) == find_matching_LastFrom(names, nt, i, 0)

(* lines 87-96: the index of the first entry of os.listdir(".") from i on  *)
(* that ends with target_ext and contains the normalized title, 0 if none  *)
RECURSIVE find_matching(_, _, _)
find_matching(names, nt, i) ==
    IF i > Len(names) THEN 0
    ELSE IF ~EndsWith(Lower(names[i]), target_ext)
         THEN find_matching(names, nt, i + 1)
    ELSE IF IsSubstring(Lower(nt), Lower(normalize_visually(names[i])))
         THEN i
    ELSE find_matching(names, nt, i + 1)

(* the track name the separator derives from the path it is given: the    *)
(* file name up to its last dot                                            *)
RECURSIVE PathStem(_)
PathStem(name) ==
    IF name = <<>> THEN <<>>
    ELSE IF name[Len(name)] = "." THEN SubSeq(name, 1, Len(name) - 1)
    ELSE PathStem(SubSeq(name, 1, Len(name) - 1))

(* loudness values: a finite number of dB, or an infinity *)
Finite(v) == [fin |-> TRUE, val |-> v]
NegInf == [fin |-> FALSE, val |-> -1]
PosInf == [fin |-> FALSE, val |-> 1]
NoLevel == [fin |-> TRUE, val |-> 0]

target_bass_dBFS == -30
target_drums_dBFS == -30

(* target - current in float arithmetic (lines 126-127) *)
GainTo(target, current) ==
    IF current.fin THEN Finite(target - current.val)
    ELSE IF current.val < 0 THEN PosInf ELSE NegInf

TitleChars == {"A", ":"}
ExtractTitles == NonEmptyStrings(TitleChars, MaxNameLen)
FileStemChars == {"a", "UFF1A"}
Extensions == {target_ext, <<".", "M", "P", "3">>, <<".", "w", "a", "v">>}
FileNames ==
    {st \o e : st \in NonEmptyStrings(FileStemChars, MaxNameLen), e \in Extensions}
Listings ==
    {l \in Strings(FileNames, MaxListing) :
        \A i, j \in 1..Len(l) : l[i] = l[j] => i = j}
Levels == {NegInf, Finite(-20), Finite(-40)}

SanChars == {"a", "A", " ", ":", "/", "\t", "U2022", "UFF1F", "U29F8", "UFF1A"}

-----------------------------------------------------------------------------
(* Idle values of the variables a specification does not use *)

IdleParse == p_pc = "idle" /\ time_str = <<>> /\ p_result = NoResult
IdleTrim ==
    /\ t_pc = "idle" /\ t_dur = 0 /\ t_start = 0 /\ t_end = 0
    /\ t_result = NoTrim
IdleMain ==
    /\ m_pc = "idle" /\ keep_temp = FALSE
    /\ start_seconds = 0 /\ end_seconds = 0
    /\ temp_state = "none" /\ temp_dur = 0 /\ temp_removed = FALSE
    /\ trim_result = NoTrim /\ warnings = {} /\ exit_status = -1
    /\ success_msg = FALSE

IdleDownload ==
    /\ d_pc = "idle" /\ d_title = <<>> /\ d_files = <<>>
    /\ d_result = NoFile
IdleSan == s_pc = "idle" /\ s_in = <<>> /\ s_out = <<>> /\ s_again = <<>>
IdleExtract ==
    /\ x_pc = "idle" /\ title = <<>> /\ listing = <<>>
    /\ normalized_title = <<>> /\ matching_file_path = <<>>
    /\ safe_path = <<>> /\ safe_title = <<>> /\ renamed = FALSE
    /\ demucs_rc = -1 /\ separated = {}
    /\ bass_dBFS = NoLevel /\ drums_dBFS = NoLevel
    /\ bass_gain = NoLevel /\ drums_gain = NoLevel
    /\ exported = FALSE /\ x_error = "none"
IdleOther == IdleDownload /\ IdleSan /\ IdleExtract

-----------------------------------------------------------------------------
(* parse_time_to_seconds on every string of the alphabet *)

InitParse ==
    /\ p_pc = "call" /\ time_str \in TimeStrs /\ p_result = NoResult
    /\ IdleTrim /\ IdleMain /\ IdleOther

ParseTime ==
    /\ p_pc = "call"
    /\ p_result' = parse_time_to_seconds(time_str)
    /\ p_pc' = "done"
    /\ UNCHANGED <<time_str, trimVars, mainVars, otherVars>>

NextParse == ParseTime

SpecParse == InitParse /\ [][NextParse]_vars

-----------------------------------------------------------------------------
(* trim_audio on every duration and every pair of bounds *)

InitTrim ==
    /\ t_pc = "call" /\ t_dur \in Durations
    /\ t_start \in Seconds /\ t_end \in Seconds
    /\ t_result = NoTrim
    /\ IdleParse /\ IdleMain /\ IdleOther

TrimAudio ==
    /\ t_pc = "call"
    /\ t_result' = trim_audio(TRUE, t_dur, t_start, t_end)
    /\ t_pc' = "done"
    /\ UNCHANGED <<t_dur, t_start, t_end, parseVars, mainVars, otherVars>>

NextTrim == TrimAudio

SpecTrim == InitTrim /\ [][NextTrim]_vars


-----------------------------------------------------------------------------
(* yt_dt.main: one run of the command line                                 *)
(*   temp_state: "none" before the download, then what the path returned   *)
(*   by download_youtube_audio names: "file" (an mp3 of temp_dur ms),      *)
(*   "undecodable" (a file pydub cannot load) or "absent" (no file)        *)

ArgStrs == Strings(TimeChars, MaxArgLen)

InitMain ==
    /\ m_pc = "parse" /\ keep_temp \in BOOLEAN
    /\ start_seconds = 0 /\ end_seconds = 0
    /\ temp_state = "none" /\ temp_dur = 0 /\ temp_removed = FALSE
    /\ trim_result = NoTrim /\ warnings = {} /\ exit_status = -1
    /\ success_msg = FALSE
    /\ IdleParse /\ IdleTrim /\ IdleOther

(* sys.exit(1), from the start >= end check or from an except clause *)
Exit1 ==
    /\ m_pc' = "exited"
    /\ exit_status' = 1

(* lines 211-216: both time arguments are parsed, then compared *)
MainParse ==
    /\ m_pc = "parse"
    /\ \E a \in ArgStrs, b \in ArgStrs :
         LET ra == parse_time_to_seconds(a)
             rb == parse_time_to_seconds(b)
         IN  \/ /\ ra.kind = "ok" /\ rb.kind = "ok" /\ ra.val < rb.val
                /\ start_seconds' = ra.val
                /\ end_seconds' = rb.val
                /\ m_pc' = "download"
                /\ UNCHANGED exit_status
             \/ /\ ra.kind = "ok" /\ rb.kind = "ok" /\ ra.val >= rb.val
                /\ start_seconds' = ra.val
                /\ end_seconds' = rb.val
                /\ Exit1
             \/ /\ (ra.kind # "ok" \/ rb.kind # "ok")
                /\ UNCHANGED <<start_seconds, end_seconds>>
                /\ Exit1
    /\ UNCHANGED <<keep_temp, temp_state, temp_dur, temp_removed, trim_result,
                   warnings, success_msg, parseVars, trimVars, otherVars>>

(* line 224: download_youtube_audio returns a path or raises *)
MainDownload ==
    /\ m_pc = "download"
    /\ \/ /\ temp_state' = "file"
          /\ temp_dur' \in Durations
          /\ m_pc' = "trim"
          /\ UNCHANGED exit_status
       \/ /\ temp_state' \in {"undecodable", "absent"}
          /\ temp_dur' = 0
          /\ m_pc' = "trim"
          /\ UNCHANGED exit_status
       \/ /\ UNCHANGED <<temp_state, temp_dur>>
          /\ Exit1
    /\ UNCHANGED <<keep_temp, start_seconds, end_seconds, temp_removed,
                   trim_result, warnings, success_msg, parseVars, trimVars, otherVars>>

(* lines 228-235: the output name is chosen and trim_audio is called *)
MainTrim ==
    /\ m_pc = "trim"
    /\ LET r == trim_audio(temp_state = "file", temp_dur,
                           start_seconds, end_seconds)
       IN  /\ trim_result' = r
           /\ warnings' = IF r.clamped THEN warnings \cup {"end_clamped"}
                          ELSE warnings
           /\ \/ /\ r.err = "none"
                 /\ m_pc' = "cleanup"
                 /\ UNCHANGED exit_status
              \/ /\ r.err # "none"
                 /\ Exit1
    /\ UNCHANGED <<keep_temp, start_seconds, end_seconds, temp_state, temp_dur,
                   temp_removed, success_msg, parseVars, trimVars, otherVars>>

(* cleanup_temp_file called even with --keep-temp *)
cleanup_wanted_Always(keep) == TRUE

(* line 238: cleanup_temp_file is called unless --keep-temp was given *)
cleanup_wanted(keep) == ~keep

(* lines 238-241: cleanup_temp_file (lines 173-180: os.remove if the path  *)
(* exists, any exception of it only printed as a warning), then the        *)
(* success message; main returns and the process ends with status 0        *)
MainCleanup ==
    /\ m_pc = "cleanup"
    /\ \/ /\ cleanup_wanted(keep_temp)
          /\ temp_state = "file"
          /\ \/ /\ temp_removed' = TRUE
                /\ temp_state' = "absent"
                /\ UNCHANGED warnings
             \/ /\ UNCHANGED <<temp_removed, temp_state>>
                /\ warnings' = warnings \cup {"cleanup_failed"}
       \/ /\ ~(cleanup_wanted(keep_temp) /\ temp_state = "file")
          /\ UNCHANGED <<temp_removed, temp_state, warnings>>
    /\ m_pc' = "done"
    /\ exit_status' = 0
    /\ success_msg' = TRUE
    /\ UNCHANGED <<keep_temp, start_seconds, end_seconds, temp_dur, trim_result,
                   parseVars, trimVars, otherVars>>

NextMain == MainParse \/ MainDownload \/ MainTrim \/ MainCleanup

SpecMain == InitMain /\ [][NextMain]_vars

-----------------------------------------------------------------------------
(* C1: trim_audio checks its bounds in the order start, end clamp, range:  *)
(* a start at or past the duration fails with the start-exceeds-duration   *)
(* error whatever the end is; only otherwise, with the end clamped to the  *)
(* duration, does start >= end fail with the empty-or-inverted-range       *)
(* error; neither failure exports a file.                                  *)
C1_TrimValidationOrder ==
    t_pc = "done" =>
        LET s == t_start * 1000
            e == t_end * 1000
            ec == IF e > t_dur THEN t_dur ELSE e
        IN  /\ (s >= t_dur <=> t_result.err = "StartExceedsDuration")
            /\ ((s < t_dur /\ s >= ec) <=> t_result.err = "EmptyOrInvertedRange")
            /\ (t_result.err \in {"StartExceedsDuration", "EmptyOrInvertedRange"}
                    => ~t_result.exported)

C1_Witness ==
    /\ t_pc = "done"
    /\ t_start * 1000 >= t_dur
    /\ t_end <= t_start
    /\ t_result.err = "StartExceedsDuration"
    /\ ~t_result.exported

(* C3: parse_time_to_seconds accepts exactly SS, MM:SS and HH:MM:SS with   *)
(* non-negative integer components and returns H*3600 + M*60 + S; any      *)
(* other number of parts fails with the invalid-time-format error naming   *)
(* the string; negative or fractional components are not accepted.         *)
IsNonNegInt(part) ==
    part # <<>> /\ \A i \in 1..Len(part) : part[i] \in Digits

C3_ParserAcceptsOnlyNonNegative ==
    p_pc = "done" =>
        LET parts == Split(time_str, ":")
            n == Len(parts)
            wellformed == n \in 1..3 /\ \A i \in 1..n : IsNonNegInt(parts[i])
            comp(i) == IF i >= 1 THEN DigitsVal(parts[i], 0) ELSE 0
        IN  /\ (p_result.kind = "ok" <=> wellformed)
            /\ (wellformed =>
                   p_result.val = comp(n - 2) * 3600 + comp(n - 1) * 60 + comp(n))
            /\ (n \notin 1..3 =>
                   p_result.kind = "InvalidTimeFormat" /\ p_result.str = time_str)


(* C2: whenever trim_audio succeeds on a buffer of D ms with the range     *)
(* (start, end), the exported buffer is min(end*1000, D) - start*1000 ms   *)
(* long, which is strictly positive and at most D, and an end beyond D is  *)
(* clamped with a warning.                                                 *)
C2_TrimOutputLength ==
    (m_pc \in {"cleanup", "done"} /\ trim_result.err = "none") =>
        LET n == Min(end_seconds * 1000, temp_dur) - start_seconds * 1000
        IN  /\ trim_result.exported
            /\ trim_result.out_len = n
            /\ n > 0
            /\ n <= temp_dur
            /\ (end_seconds * 1000 > temp_dur => "end_clamped" \in warnings)

(* C8: the temporary download is removed only after trim_audio succeeded   *)
(* and only without --keep-temp; a run that fails never removes it; a      *)
(* failed removal is only a warning and the run still ends with status 0   *)
(* and the success message.                                                *)
C8_TempRemovedOnlyAfterTrim ==
    /\ temp_removed =>
          /\ trim_result.err = "none" /\ trim_result.exported
          /\ ~keep_temp
    /\ exit_status = 1 => (~temp_removed /\ ~success_msg)
    /\ "cleanup_failed" \in warnings =>
          m_pc = "done" /\ exit_status = 0 /\ success_msg /\ ~temp_removed

C8_Witness ==
    /\ m_pc = "done" /\ exit_status = 0 /\ success_msg
    /\ temp_removed /\ ~keep_temp /\ trim_result.exported


-----------------------------------------------------------------------------
(* the file search of download_youtube_audio on every title and listing *)

InitDownload ==
    /\ d_pc = "call" /\ d_title \in Titles /\ d_files \in Mp3Listings
    /\ d_result = NoFile
    /\ IdleParse /\ IdleTrim /\ IdleMain /\ IdleSan /\ IdleExtract

FindDownloaded ==
    /\ d_pc = "call"
    /\ d_result' = find_downloaded(d_title, d_files)
    /\ d_pc' = "done"
    /\ UNCHANGED <<d_title, d_files, parseVars, trimVars, mainVars, sanVars,
                   extractVars>>

NextDownload == FindDownloaded

SpecDownload == InitDownload /\ [][NextDownload]_vars

-----------------------------------------------------------------------------
(* the filename sanitizer on every string of the alphabet *)

InitSan ==
    /\ s_pc = "call" /\ s_in \in Strings(SanChars, MaxSanLen)
    /\ s_out = <<>> /\ s_again = <<>>
    /\ IdleParse /\ IdleTrim /\ IdleMain /\ IdleDownload /\ IdleExtract

SanitizeOnce ==
    /\ s_pc = "call"
    /\ s_out' = Sanitize(s_in)
    /\ s_pc' = "again"
    /\ UNCHANGED <<s_in, s_again, parseVars, trimVars, mainVars, downloadVars,
                   extractVars>>

SanitizeAgain ==
    /\ s_pc = "again"
    /\ s_again' = Sanitize(s_out)
    /\ s_pc' = "done"
    /\ UNCHANGED <<s_in, s_out, parseVars, trimVars, mainVars, downloadVars,
                   extractVars>>

NextSan == SanitizeOnce \/ SanitizeAgain

SpecSanitize == InitSan /\ [][NextSan]_vars

-----------------------------------------------------------------------------
(* extract_bass_drums_from_youtube.py: one run of the script               *)
(*   separated: the directories under ./separated/htdemucs that hold       *)
(*   bass.mp3 and drums.mp3, each with whether this run wrote it           *)

StemDir(name, fresh) == [dir |-> name, fresh |-> fresh]

(* after line 79: the download reported a title and the directory holds    *)
(* the listing; stems of an earlier run of the same title may exist        *)
Init ==
    /\ x_pc = "resolve"
    /\ title \in ExtractTitles /\ listing \in Listings
    /\ normalized_title = <<>> /\ matching_file_path = <<>>
    /\ safe_path = <<>> /\ safe_title = <<>> /\ renamed = FALSE
    /\ demucs_rc = -1
    /\ separated \in SUBSET {StemDir(Sanitize(normalize_visually(title)), FALSE)}
    /\ bass_dBFS = NoLevel /\ drums_dBFS = NoLevel
    /\ bass_gain = NoLevel /\ drums_gain = NoLevel
    /\ exported = FALSE /\ x_error = "none"
    /\ IdleParse /\ IdleTrim /\ IdleMain /\ IdleDownload /\ IdleSan

yt == <<parseVars, trimVars, mainVars, downloadVars, sanVars>>

(* lines 81-99 *)
Resolve ==
    /\ x_pc = "resolve"
    /\ normalized_title' = normalize_visually(title)
    /\ LET i == find_matching(listing, normalize_visually(title), 1)
       IN  \/ /\ i # 0
              /\ matching_file_path' = listing[i]
              /\ x_pc' = "sanitize"
              /\ UNCHANGED x_error
           \/ /\ i = 0
              /\ UNCHANGED matching_file_path
              /\ x_error' = "NoMatchingFile"
              /\ x_pc' = "failed"
    /\ UNCHANGED <<title, listing, safe_path, safe_title, renamed, demucs_rc,
                   separated, bass_dBFS, drums_dBFS, bass_gain, drums_gain,
                   exported, yt>>

(* lines 102-109: the rename puts safe_path in place of the matching file *)
SanitizeAndRename ==
    /\ x_pc = "sanitize"
    /\ safe_path' = Sanitize(matching_file_path)
    /\ safe_title' = Sanitize(normalized_title)
    /\ renamed' = (matching_file_path # Sanitize(matching_file_path))
    /\ listing' = [i \in 1..Len(listing) |->
                      IF listing[i] = matching_file_path
                      THEN Sanitize(matching_file_path) ELSE listing[i]]
    /\ x_pc' = "separate"
    /\ UNCHANGED <<title, normalized_title, matching_file_path, demucs_rc,
                   separated, bass_dBFS, drums_dBFS, bass_gain, drums_gain,
                   exported, x_error, yt>>

(* line 112, separate_audio_with_demucs (lines 68-76): the separator runs  *)
(* on safe_path; CalledProcessError is caught and printed                  *)
Separate ==
    /\ x_pc = "separate"
    /\ \/ /\ demucs_rc' = 0
          /\ separated' =
                {d \in separated : d.dir # PathStem(safe_path)}
                    \cup {StemDir(PathStem(safe_path), TRUE)}
       \/ /\ demucs_rc' = 1
          /\ UNCHANGED separated
    /\ x_pc' = "load"
    /\ UNCHANGED <<title, listing, normalized_title, matching_file_path,
                   safe_path, safe_title, renamed, bass_dBFS, drums_dBFS,
                   bass_gain, drums_gain, exported, x_error, yt>>

(* lines 115-119: AudioSegment.from_file of both stems *)
LoadStems ==
    /\ x_pc = "load"
    /\ \/ /\ \E d \in separated : d.dir = safe_title
          /\ bass_dBFS' \in Levels
          /\ drums_dBFS' \in Levels
          /\ x_pc' = "normalize"
          /\ UNCHANGED x_error
       \/ /\ ~\E d \in separated : d.dir = safe_title
          /\ UNCHANGED <<bass_dBFS, drums_dBFS>>
          /\ x_error' = "StemsNotFound"
          /\ x_pc' = "failed"
    /\ UNCHANGED <<title, listing, normalized_title, matching_file_path,
                   safe_path, safe_title, renamed, demucs_rc, separated,
                   bass_gain, drums_gain, exported, yt>>

(* lines 122-127: apply_gain(target - dBFS) on both stems *)
ApplyGain ==
    /\ x_pc = "normalize"
    /\ bass_gain' = GainTo(target_bass_dBFS, bass_dBFS)
    /\ drums_gain' = GainTo(target_drums_dBFS, drums_dBFS)
    /\ x_pc' = "export"
    /\ UNCHANGED <<title, listing, normalized_title, matching_file_path,
                   safe_path, safe_title, renamed, demucs_rc, separated,
                   bass_dBFS, drums_dBFS, exported, x_error, yt>>

(* lines 130-132: overlay and export *)
Export ==
    /\ x_pc = "export"
    /\ exported' = TRUE
    /\ x_pc' = "done"
    /\ UNCHANGED <<title, listing, normalized_title, matching_file_path,
                   safe_path, safe_title, renamed, demucs_rc, separated,
                   bass_dBFS, drums_dBFS, bass_gain, drums_gain, x_error, yt>>

Next ==
    Resolve \/ SanitizeAndRename \/ Separate \/ LoadStems \/ ApplyGain \/ Export

Spec == Init /\ [][Next]_vars

Covered(i) ==
    LET words == SplitWords(Lower(d_title))
    IN  EnoughWords(WordMatches(words, Lower(d_files[i].stem)), Len(words))

HasCleanTitle(i) ==
    IsSubstring(Lower(CleanTitle(d_title)), Lower(d_files[i].stem))

IsNewest(i) ==
    /\ \A j \in 1..Len(d_files) : d_files[j].mtime <= d_files[i].mtime
    /\ \A j \in 1..(i - 1) : d_files[j].mtime < d_files[i].mtime

FileIdx == 1..Len(d_files)

Candidate(i) ==
    /\ EndsWith(Lower(listing[i]), target_ext)
    /\ IsSubstring(Lower(normalize_visually(title)),
                   Lower(normalize_visually(listing[i])))

(* C4: the file search returns the first entry, in listing order, that     *)
(* ends with the extension (case-insensitively) and whose normalized       *)
(* lower-cased name contains the normalized lower-cased title; when no     *)
(* entry does, the script fails with the no-matching-file error carrying   *)
(* the normalized title and renames, separates and exports nothing.        *)
C4_FirstMatchingEntry ==
    /\ x_pc = "sanitize" =>
          \E i \in 1..Len(listing) :
              /\ matching_file_path = listing[i]
              /\ Candidate(i)
              /\ \A j \in 1..(i - 1) : ~Candidate(j)
    /\ x_error = "NoMatchingFile" =>
          /\ \A i \in 1..Len(listing) : ~Candidate(i)
          /\ x_pc = "failed"
          /\ normalized_title = normalize_visually(title)
          /\ matching_file_path = <<>>
          /\ ~renamed /\ demucs_rc = -1 /\ ~exported

(* the second entry is returned: the first one is an mp3 without the title *)
C4_Witness ==
    /\ x_pc = "sanitize"
    /\ Len(listing) = 2
    /\ matching_file_path = listing[2]
    /\ EndsWith(Lower(listing[1]), target_ext)
    /\ title # <<>>

(* no entry matches although the directory holds an mp3 *)
C4_WitnessNoMatch ==
    /\ x_error = "NoMatchingFile"
    /\ \E i \in 1..Len(listing) : EndsWith(Lower(listing[i]), target_ext)

(* C5: when the separator exits non-zero the script aborts: no stems are   *)
(* loaded and no combined file is exported, whatever the separation        *)
(* output directory already holds.                                         *)
C5_SeparatorFailureAborts ==
    demucs_rc > 0 => (x_pc \notin {"normalize", "export", "done"} /\ ~exported)

(* C6: the loudness step never applies a non-finite gain; a stem whose     *)
(* loudness is minus infinity makes the step fail with the degenerate-     *)
(* signal error and nothing is exported.                                   *)
C6_NoNonFiniteGain ==
    /\ bass_gain.fin /\ drums_gain.fin
    /\ (x_pc \in {"export", "done"} /\ ~(bass_dBFS.fin /\ drums_dBFS.fin)) =>
          (x_error = "DegenerateSignal" /\ ~exported)

(* C7: the sanitizer's output holds no disallowed character, is the input  *)
(* with exactly the disallowed characters deleted (the others in order and *)
(* unchanged), and sanitizing it again changes nothing; the empty string   *)
(* included.                                                               *)
KeptPositions(s) == {i \in 1..Len(s) : s[i] \notin SPECIAL_CHARS}
KthKept(s, k) ==
    CHOOSE i \in KeptPositions(s) :
        Cardinality({j \in KeptPositions(s) : j <= i}) = k

C7_SanitizerIdempotent ==
    /\ s_pc \in {"again", "done"} =>
          /\ \A k \in 1..Len(s_out) : s_out[k] \notin SPECIAL_CHARS
          /\ Len(s_out) = Cardinality(KeptPositions(s_in))
          /\ \A k \in 1..Len(s_out) : s_out[k] = s_in[KthKept(s_in, k)]
    /\ s_pc = "done" => s_again = s_out

(* two disallowed characters around a kept one *)
C7_Witness ==
    /\ s_pc = "done"
    /\ Len(s_in) = 3 /\ Len(s_out) = 1
    /\ s_in[2] = s_out[1]
    /\ s_again = s_out

(* C10: the stems are loaded from the directory the separator wrote: the   *)
(* stem of the sanitized path given to the separator equals the sanitized  *)
(* normalized title of the lookup path.                                    *)
C10_StemDirIsSeparatorOutput ==
    (x_pc \in {"load", "normalize", "export", "done"} /\ demucs_rc = 0) =>
        /\ PathStem(safe_path) = safe_title
        /\ x_pc # "load" =>
              \E d \in separated : d.dir = safe_title /\ d.fresh

=============================================================================
